---- MODULE Spec2Model ----
(***************************************************************************)
(* Model of onefilellm.py: the crawl engine (crawl_and_extract_text), the  *)
(* source dispatcher (dispatch_processing, process_input) and the driver   *)
(* (main).                                                                 *)
(*                                                                         *)
(* Strings are sequences of atoms.  The strings of the universe are cut    *)
(* so that every substring the code tests for ("github.com", "/pull/",     *)
(* ".pdf", "10.", ...) begins and ends on atom boundaries, and the         *)
(* delimiters ":", "/", "#", "." are atoms of their own; startswith,       *)
(* endswith and "in" on the atom sequences then agree with the             *)
(* character-level tests.                                                  *)
(***************************************************************************)
EXTENDS Naturals, Integers, Sequences, FiniteSets, TLC

VARIABLES
    \* ---- crawl_and_extract_text (src/onefilellm.py:588-634)
    base_url,           \* argument
    max_depth,          \* argument
    include_pdfs,       \* argument
    ignore_epubs,       \* argument
    visited,            \* set of clean URLs                       (line 591)
    to_visit,           \* list of <<url, depth>>                  (line 591)
    all_text_xml,       \* the <page> elements appended so far     (line 632)
    processed_content,  \* keys of the dict, in insertion order    (line 591)
    crawl_pc,           \* "idle" | "loop" | "returned"
    visited_adds,       \* history: every visited.add, in order
    fetched,            \* history: every HTTP GET of the crawl, in order
    enqueued,           \* history: every URL appended to to_visit by line 629
    page,               \* the HTML page whose anchors are being walked, or NoPage
    last_link,          \* history: the new_clean of the last anchor walked, or NoLink
    anchors,            \* history: the number of anchors walked so far
    link_errors,        \* history: the number of exceptions line 630 caught
    \* ---- process_input / dispatch_processing (src/onefilellm.py:781-850)
    input_path,         \* argument of process_input
    fs_kind,            \* what os.path says of input_path: "dir" | "file" | "none"
    handler,            \* history: the handler dispatch_processing called, or "none"
    dispatch_raised,    \* history: the exception that left dispatch_processing, or "none"
    result,             \* what process_input returned: a string of blocks
    raised,             \* the exception that left process_input, or "none"
    input_pc,           \* "idle" | "dispatch" | "crawl" | "done"
    content_to_insert,  \* history: what a PDF handler put into its block, or NoContent
    doi_tried,          \* history: the Sci-Hub attempts process_doi_or_pmid made
    \* ---- main (src/onefilellm.py:852-937)
    argv,               \* sys.argv[1:]
    stdin_isatty,       \* sys.stdin.isatty()
    stream_text,        \* what stdin / the clipboard holds
    alias_file,         \* what load_alias finds for a name: NoAlias or its targets
    raw_args,           \* local of main
    input_paths,        \* local of main
    is_stream_input_mode, \* local of main: Unbound until line 881 or 886 sets it "True"
    user_fmt_override,  \* local of main; <<>> stands for None
    outputs,            \* the list main builds at lines 906-917
    main_pc,            \* "idle" | "args" | "inputs" | "process" | "combine" |
                        \* "returned" | "raised"
    main_error,         \* the exception that left main, or "none"
    \* ---- the requests made
    headers,            \* the module's authentication header bag: the names of
                        \* its headers                                (line 151)
    with_auth,          \* history: the callers whose request carried an
                        \* Authorization header
    \* ---- the working directory
    temp_log,           \* history: the extraction calls that went as far as their
                        \* download, with what became of their temporary file
    \* ---- TestConfig (src/tests/test_runner_config.py:13-72)
    config_args,        \* history: the keyword arguments of the last TestConfig(...)
    config,             \* the object the call returned, or NoConfig
    config_error,       \* the exception that left the call, or "none"
    \* ---- two POST requests to index (src/web_app.py:55-120), each a thread
    \*      that calls process_input for the URL of a PDF or of an arXiv paper
    req_pc,             \* per request: "idle" | "write" | "read" | "finally" | "done"
    temp_pdf_path,      \* per request: the local of its extraction call
    temp_files,         \* per path of the working directory: the request whose
                        \* download the file holds, 0 when there is no file
    req_text,           \* per request: the request whose download the text of
                        \* its block was extracted from, 0 for none
    interfered          \* history: the reads, writes and removals that met a
                        \* file of the other request

crawl_vars == <<base_url, max_depth, include_pdfs, ignore_epubs, visited, to_visit,
                all_text_xml, processed_content, crawl_pc, visited_adds, fetched,
                enqueued, page, last_link, anchors, link_errors>>
input_vars == <<input_path, fs_kind, handler, dispatch_raised, result, raised, input_pc,
               content_to_insert, doi_tried>>
main_vars == <<argv, stdin_isatty, stream_text, alias_file, raw_args, input_paths,
               is_stream_input_mode, user_fmt_override, outputs, main_pc, main_error>>
disk_vars == <<temp_log>>
auth_vars == <<headers, with_auth>>
web_vars == <<req_pc, temp_pdf_path, temp_files, req_text, interfered>>
config_vars == <<config_args, config, config_error>>
vars == <<crawl_vars, input_vars, main_vars, disk_vars, config_vars, auth_vars, web_vars>>

(***************************************************************************)
(* str methods, on atom sequences                                          *)
(***************************************************************************)
startswith(s, p) ==
    /\ Len(p) <= Len(s)
    /\ SubSeq(s, 1, Len(p)) = p

endswith(s, p) ==
    /\ Len(p) <= Len(s)
    /\ SubSeq(s, Len(s) - Len(p) + 1, Len(s)) = p

\* p in s
contains(s, p) ==
    \E i \in 1..(Len(s) - Len(p) + 1) :
        \A k \in 1..Len(p) : s[i + k - 1] = p[k]

\* s.find(a) for a one-atom a, 1-based; 0 when absent
find(s, a) ==
    IF \E i \in 1..Len(s) : s[i] = a
    THEN CHOOSE i \in 1..Len(s) : s[i] = a /\ \A j \in 1..(i - 1) : s[j] # a
    ELSE 0

\* first position of any atom of set A, or Len(s) + 1
find_any(s, A) ==
    IF \E i \in 1..Len(s) : s[i] \in A
    THEN CHOOSE i \in 1..Len(s) : s[i] \in A /\ \A j \in 1..(i - 1) : s[j] \notin A
    ELSE Len(s) + 1

RECURSIVE rstrip(_, _)
rstrip(s, a) ==
    IF s # <<>> /\ s[Len(s)] = a THEN rstrip(SubSeq(s, 1, Len(s) - 1), a) ELSE s

\* number of occurrences of atom a in s
count(s, a) ==
    Cardinality({i \in 1..Len(s) : s[i] = a})

\* len(s.split(a)) for a non-empty or empty s
split_len(s, a) ==
    count(s, a) + 1

lower(s) ==
    [i \in 1..Len(s) |-> CASE s[i] = "EPUB" -> "epub"
                            [] s[i] = "PDF" -> "pdf"
                            [] OTHER -> s[i]]

DigitAtoms == {"10", "23", "5", "8080"}

\* str.isdigit(): non-empty and every character a digit
isdigit(s) ==
    /\ s # <<>>
    /\ \A i \in 1..Len(s) : s[i] \in DigitAtoms

SeqsUpTo(S, n) ==
    UNION {[1..k -> S] : k \in 0..n}

(***************************************************************************)
(* urllib.parse, for URLs without query or parameters (no "?" and no ";"   *)
(* atom exists) and without "." / ".." path segments.                      *)
(***************************************************************************)
Delimiters == {":", "/", "#", "[", "]"}

\* atoms whose first character is a letter
AlphaStart(a) ==
    a \notin Delimiters /\ a \notin DigitAtoms /\ a # "."

\* uses_netloc, and uses_relative, which holds the same schemes
uses_netloc == {<<"http">>, <<"https">>, <<"ftp">>}


\* urlsplit, step 1: the scheme is what precedes the first ":" when that is made
\* of scheme characters and starts with a letter
has_scheme(url, i) ==
    /\ i > 1
    /\ AlphaStart(url[1])
    /\ \A j \in 1..(i - 1) : url[j] \notin Delimiters

scheme_of(url, i) ==
    IF has_scheme(url, i) THEN lower(SubSeq(url, 1, i - 1)) ELSE <<>>

after_scheme(url, i) ==
    IF has_scheme(url, i) THEN SubSeq(url, i + 1, Len(url)) ELSE url

\* urlsplit, step 2 (_splitnetloc): after "//" the netloc runs to the next "/" or "#"
cut_netloc(after, delim) ==
    [netloc |-> SubSeq(after, 1, delim - 1), url |-> SubSeq(after, delim, Len(after))]

split_netloc(rest) ==
    IF startswith(rest, <<"/", "/">>)
    THEN cut_netloc(SubSeq(rest, 3, Len(rest)),
                    find_any(SubSeq(rest, 3, Len(rest)), {"/", "#"}))
    ELSE [netloc |-> <<>>, url |-> rest]

\* urlsplit, step 3: the fragment is what follows the first "#"
split_fragment(scheme, netloc, url, h) ==
    [scheme |-> scheme,
     netloc |-> netloc,
     path |-> IF h > 0 THEN SubSeq(url, 1, h - 1) ELSE url,
     fragment |-> IF h > 0 THEN SubSeq(url, h + 1, Len(url)) ELSE <<>>]

split_rest(scheme, nl) ==
    split_fragment(scheme, nl.netloc, nl.url, find(nl.url, "#"))

split_at(url, i) ==
    split_rest(scheme_of(url, i), split_netloc(after_scheme(url, i)))

\* urlsplit: [scheme, netloc, path, fragment]
urlparse(url) ==
    split_at(url, find(url, ":"))

\* urlsplit raises ValueError("Invalid IPv6 URL") on an unbalanced bracket
urlparse_raises(url) ==
    \/ (contains(urlparse(url).netloc, <<"[">>) /\ ~contains(urlparse(url).netloc, <<"]">>))
    \/ (contains(urlparse(url).netloc, <<"]">>) /\ ~contains(urlparse(url).netloc, <<"[">>))

\* urlunsplit
unsplit(scheme, netloc, path, fragment) ==
    (IF scheme # <<>> THEN scheme \o <<":">> ELSE <<>>)
    \o (IF netloc # <<>> \/ (scheme \in uses_netloc /\ ~startswith(path, <<"/", "/">>))
        THEN <<"/", "/">> \o netloc
             \o (IF path # <<>> /\ path[1] # "/" THEN <<"/">> ELSE <<>>)
        ELSE <<>>)
    \o path
    \o (IF fragment # <<>> THEN <<"#">> \o fragment ELSE <<>>)

\* the position of the last "/" of s, 0 when there is none
rfind_slash(s) ==
    IF \E i \in 1..Len(s) : s[i] = "/"
    THEN CHOOSE i \in 1..Len(s) : s[i] = "/" /\ \A j \in (i + 1)..Len(s) : s[j] # "/"
    ELSE 0

\* urljoin, the path of the joined URL
joined_path(bpath, path) ==
    IF path = <<>> THEN bpath
    ELSE IF path[1] = "/" THEN path
    ELSE SubSeq(bpath, 1, rfind_slash(bpath)) \o path

\* urljoin, with both URLs parsed and the scheme defaulted to the base's
join_parsed(url, b, u, scheme) ==
    IF scheme # b.scheme \/ scheme \notin uses_netloc THEN url
    ELSE IF scheme \in uses_netloc /\ u.netloc # <<>>
    THEN unsplit(scheme, u.netloc, u.path, u.fragment)
    ELSE unsplit(scheme, b.netloc, joined_path(b.path, u.path), u.fragment)

join_with(url, b, u) ==
    join_parsed(url, b, u, IF u.scheme = <<>> THEN b.scheme ELSE u.scheme)

urljoin(base, url) ==
    IF base = <<>> THEN url
    ELSE IF url = <<>> THEN base
    ELSE join_with(url, urlparse(base), urlparse(url))

(***************************************************************************)
(* The crawls explored: base URLs, the hrefs a fetched page may hold, and  *)
(* what a fetch may answer.                                                *)
(***************************************************************************)
MaxDepthArg == 2
\* anchors in the pages of one crawl, all pages together
MaxLinks == 3

Bases ==
    { <<"http", ":", "/", "/", "h", "/", "d">>,                       \* http://h/d
      <<"http", ":", "/", "/", "h", "/", "d", "/", "p", ".", "pdf">>,
      <<"https", ":", "/", "/", "h", "/", "d", "/", "p", ".", "PDF">>,
      <<"http", ":", "/", "/", "h">>,                                 \* http://h
      <<"h", "/", "d">>,                                              \* h/d
      <<"http", ":", "/", "/", "h", "/", "d", "/", "k", ".", "epub">>,
      <<"/", "/", "h", "/", "d">> }                                   \* //h/d

Hrefs ==
    { <<"http", ":", "/", "/", "h", "/", "d">>,                       \* back to the base
      <<"http", ":", "/", "/", "h", "/", "d", "/", "a", "#", "f">>,   \* with a fragment
      <<"/", "d", "/", "a">>,                                         \* absolute path
      <<"http", ":", "/", "/", "h", "/", "d", "/", "a", "/", "b">>,
      <<"http", ":", "/", "/", "g", "/", "d", "/", "a">>,             \* another host
      <<"http", ":", "/", "/", "h", "/", "d", "/", "k", ".", "EPUB">>,
      <<"http", ":", "/", "/", "h", "/", "d", "/", "p", ".", "pdf">>,
      <<"http", ":", "/", "/", "h", "/", "a">>,                       \* outside the base path
      <<"mailto", ":", "f">>,
      <<"javascript", ":", "f">>,
      <<"#", "f">>,
      <<"http", ":", "/", "/", "[", "h", "/", "d">>,                  \* urlparse raises
      <<"http", ":", "/", "/", "h", ":", "8080", "/", "d", "/", "a">>, \* another port
      <<"/">> }                                                       \* the root of the host

(***************************************************************************)
(* PDF extraction.  An extracted string is a sequence of pieces: "text" is *)
(* the text of a page, "e" an "<e>...</e>" marker, "error" an              *)
(* "<error>...</error>" marker.                                            *)
(***************************************************************************)
MaxPdfPages == 2

\* what page_obj.extract_text() does for a page (lines 180-185): it returns
\* text, returns nothing (blank or image page), or raises
PageOutcomes == {"text", "blank", "raises"}

\* pdf_reader.pages
Pdfs == SeqsUpTo(PageOutcomes, MaxPdfPages)

\* lines 177-185: text_list
RECURSIVE text_list(_)
text_list(pages) ==
    IF pages = <<>> THEN <<>>
    ELSE (CASE Head(pages) = "text" -> <<"text">>
            [] Head(pages) = "raises" -> <<"e">>
            [] OTHER -> <<>>)
         \o text_list(Tail(pages))

\* lines 173-189: _extract_text_from_pdf_object
extract_text_from_pdf_object(pages) ==
    IF pages = <<>> THEN <<"e">>
    ELSE IF text_list(pages) = <<>> THEN <<"e">>
    ELSE text_list(pages)

\* s.strip().startswith("<e>")
starts_with_e(s) ==
    s # <<>> /\ s[1] = "e"

\* what a download of a PDF meets: the request fails, the answer is not
\* application/pdf, PdfReader raises on the file written, or the file is a PDF
\* and this is what _extract_text_from_pdf_object makes of its pages
PdfAnswers ==
    {[answer |-> a, extracted |-> <<>>] : a \in {"request_fails", "not_pdf", "unreadable"}}
    \cup {[answer |-> "pdf", extracted |-> extract_text_from_pdf_object(pages)] :
             pages \in Pdfs}

\* lines 574, 380, 665: the temporary file is written
temp_written(ans) ==
    ans.answer \in {"unreadable", "pdf"}

\* variant of temp_left without the finally clause: the file stays
temp_left_no_finally(written, remove_fails) ==
    written

\* lines 585-586, 395-396, 673-674: the file exists after the finally clause
\* only when os.remove raised
temp_left(written, remove_fails) ==
    written /\ remove_fails

\* the n-th extraction call or attempt of a handler, and its temporary file
temp_entry(call, n, ans, remove_fails) ==
    [call |-> call, n |-> n, written |-> temp_written(ans),
     remove_failed |-> temp_written(ans) /\ remove_fails,
     exists |-> temp_left(temp_written(ans), remove_fails)]

\* lines 565-586: what process_web_pdf returns; the os.remove of its finally
\* clause may raise, and the exception then leaves the function
process_web_pdf(ans, remove_fails) ==
    IF temp_written(ans) /\ remove_fails THEN [raised |-> TRUE, value |-> <<>>]
    ELSE IF ans.answer = "pdf" THEN [raised |-> FALSE, value |-> ans.extracted]
    ELSE [raised |-> FALSE, value |-> <<"error">>]


(***************************************************************************)
(* The headers of the requests                                             *)
(***************************************************************************)
\* variant of request_headers in which every caller sends the bag it was given
request_headers_passed_on(by, bag) ==
    bag

\* the headers= argument of the requests a caller makes, bag being the
\* headers_to_use it was given: lines 155, 207, 292, 365, 697-758 pass it on,
\* line 610 sends a User-Agent of its own, lines 642-661 the Sci-Hub headers,
\* lines 378 and 570 none; fetch_youtube_transcript is given no bag
request_headers(by, bag) ==
    CASE by \in {"process_github_pull_request", "process_github_issue",
                 "process_github_repo", "excel_to_markdown_from_url",
                 "_download_and_read_file"} -> bag
      [] by = "crawl_and_extract_text" -> {"User-Agent"}
      [] by = "process_doi_or_pmid" -> {"User-Agent", "Accept"}
      [] OTHER -> {}

\* the caller, when its requests carry an Authorization header
carriers(by) ==
    IF "Authorization" \in request_headers(by, headers) THEN {by} ELSE {}

(***************************************************************************)
(* The crawl engine                                                        *)
(***************************************************************************)
\* variant of is_same_domain that lets every host pass
is_same_domain_any_host(base, new) ==
    TRUE

is_same_domain(base, new) ==
    urlparse(base).netloc = urlparse(new).netloc

\* variant of within that counts the empty path of a root base as one segment
within_counting_root(base_p, current_p, max_d) ==
    IF ~startswith(current_p, base_p) THEN FALSE
    ELSE (IF current_p # <<>> THEN split_len(current_p, "/") ELSE 1)
         - (IF base_p # <<>> THEN split_len(base_p, "/") ELSE 1) <= max_d

\* variant of within that counts the segments and drops the prefix test
within_any_path(base_p, current_p, max_d) ==
    (IF current_p # <<>> THEN split_len(current_p, "/") ELSE 0)
    - (IF base_p # <<>> THEN split_len(base_p, "/") ELSE 0) <= max_d

\* variant of within that keeps the prefix test and drops the segment count
within_prefix_only(base_p, current_p, max_d) ==
    startswith(current_p, base_p)

within(base_p, current_p, max_d) ==
    IF ~startswith(current_p, base_p) THEN FALSE
    ELSE (IF current_p # <<>> THEN split_len(current_p, "/") ELSE 0)
         - (IF base_p # <<>> THEN split_len(base_p, "/") ELSE 0) <= max_d

is_within_depth(base, current, max_d) ==
    within(rstrip(urlparse(base).path, "/"), rstrip(urlparse(current).path, "/"), max_d)

\* variant of clean_url_of that leaves a URL without a scheme as it is
clean_url_of_as_given(curr) ==
    unsplit(urlparse(curr).scheme, urlparse(curr).netloc, urlparse(curr).path, <<>>)

\* lines 596-597: the fragment is dropped, a missing scheme becomes "http://"
clean_url_of(curr) ==
    IF urlparse(curr).scheme = <<>>
    THEN <<"http", ":", "/", "/">>
         \o unsplit(urlparse(curr).scheme, urlparse(curr).netloc, urlparse(curr).path, <<>>)
    ELSE unsplit(urlparse(curr).scheme, urlparse(curr).netloc, urlparse(curr).path, <<>>)

is_epub(url) ==
    endswith(lower(url), <<".", "epub">>)

is_pdf(url) ==
    endswith(lower(url), <<".", "pdf">>)

\* line 623: the href is looked at
href_followed(new_raw) ==
    /\ new_raw # <<>>
    /\ ~startswith(new_raw, <<"mailto", ":">>)
    /\ ~startswith(new_raw, <<"javascript", ":">>)
    /\ ~startswith(new_raw, <<"#">>)

\* lines 624-627 raise (caught at line 630)
link_raises(clean_url, new_raw) ==
    urlparse_raises(new_raw) \/ urlparse_raises(urljoin(clean_url, new_raw))

\* line 626: a joined URL without a scheme takes the page's scheme
with_page_scheme(new_url, parsed_new, page_scheme) ==
    IF parsed_new.scheme = <<>>
    THEN unsplit(page_scheme, parsed_new.netloc, parsed_new.path, parsed_new.fragment)
    ELSE new_url

\* line 627: the fragment is dropped
drop_fragment(p) ==
    unsplit(p.scheme, p.netloc, p.path, <<>>)

new_clean_joined(new_url, page_scheme) ==
    drop_fragment(urlparse(with_page_scheme(new_url, urlparse(new_url), page_scheme)))

\* lines 624-627: new_clean
new_clean_of(clean_url, new_raw) ==
    new_clean_joined(urljoin(clean_url, new_raw), urlparse(clean_url).scheme)

NoLink == <<>>

\* lines 622-627 for one anchor: its new_clean, or NoLink when the href is passed
\* over (line 623) or raises (line 630)
link_target(clean_url, new_raw) ==
    IF href_followed(new_raw) /\ ~link_raises(clean_url, new_raw)
    THEN new_clean_of(clean_url, new_raw)
    ELSE NoLink

(***************************************************************************)
(* The URLs a crawl of the universe can meet, and the functions above      *)
(* tabulated over them: the crawl below looks the values up.               *)
(***************************************************************************)
Targets(P) ==
    {link_target(p, h) : p \in P, h \in Hrefs} \ {NoLink}

\* the cleaned bases, the pages they link to, and the pages those link to
Pages ==
    {clean_url_of(b) : b \in Bases}
    \cup Targets({clean_url_of(b) : b \in Bases})
    \cup Targets(Targets({clean_url_of(b) : b \in Bases}))

CleanTable == [u \in Bases \cup Pages |-> clean_url_of(u)]
LinkTable == [p \in Pages, h \in Hrefs |-> link_target(p, h)]
LinkRaisesTable == [p \in Pages, h \in Hrefs |-> href_followed(h) /\ link_raises(p, h)]
SameDomainTable == [b \in Bases, u \in Pages |-> is_same_domain(b, u)]
WithinDepthTable ==
    [b \in Bases, u \in Pages, d \in 0..MaxDepthArg |-> is_within_depth(b, u, d)]
EpubTable == [u \in Pages |-> is_epub(u)]
PdfTable == [u \in Pages |-> is_pdf(u)]

\* variant of discarded without the visited test
discarded_unless_visited(clean_url) ==
    \/ ~SameDomainTable[base_url, clean_url]
    \/ ~WithinDepthTable[base_url, clean_url, max_depth]

\* line 598: the dequeued entry is dropped without a trace
discarded(clean_url) ==
    \/ clean_url \in visited
    \/ ~SameDomainTable[base_url, clean_url]
    \/ ~WithinDepthTable[base_url, clean_url, max_depth]

\* line 599
epub_skipped(clean_url) ==
    ignore_epubs /\ EpubTable[clean_url]

\* variant of link_in_scope without the EPUB test
link_in_scope_with_epubs(new_clean, vis) ==
    /\ new_clean \notin vis
    /\ SameDomainTable[base_url, new_clean]
    /\ WithinDepthTable[base_url, new_clean, max_depth]

\* line 628
link_in_scope(new_clean, vis) ==
    /\ new_clean \notin vis
    /\ SameDomainTable[base_url, new_clean]
    /\ WithinDepthTable[base_url, new_clean, max_depth]
    /\ ~(ignore_epubs /\ EpubTable[new_clean])

Range(q) ==
    {q[i] : i \in 1..Len(q)}

\* line 629
append_link(tv, new_clean, depth) ==
    IF <<new_clean, depth + 1>> \notin Range(tv)
    THEN Append(tv, <<new_clean, depth + 1>>)
    ELSE tv

\* lines 628-629, for the new_clean of one anchor
enqueue_clean(new_clean, tv, vis, depth) ==
    IF new_clean # NoLink /\ link_in_scope(new_clean, vis)
    THEN append_link(tv, new_clean, depth)
    ELSE tv

\* lines 621-630: one anchor
enqueue_link(new_raw, tv, vis, clean_url, depth) ==
    enqueue_clean(LinkTable[clean_url, new_raw], tv, vis, depth)

\* variant of pop_entry that reads the head and leaves it on the list
pop_entry_kept(tv) ==
    [entry |-> Head(tv), rest |-> tv]

\* variant of pop_entry that pops the tail of the list: to_visit.pop()
pop_entry_last(tv) ==
    [entry |-> tv[Len(tv)], rest |-> SubSeq(tv, 1, Len(tv) - 1)]

\* line 595: to_visit.pop(0)
pop_entry(tv) ==
    [entry |-> Head(tv), rest |-> Tail(tv)]

curr_url == pop_entry(to_visit).entry[1]
curr_depth == pop_entry(to_visit).entry[2]
curr_clean == CleanTable[curr_url]

\* lines 601-632: the <page> element of one URL
page_record(clean_url, depth, status, body, escaped) ==
    [url |-> clean_url, depth |-> depth, status |-> status, body |-> body,
     escaped |-> escaped]

\* variant of store that puts a new key in front of the others
store_in_front(keys, clean_url) ==
    IF clean_url \in Range(keys) THEN keys ELSE <<clean_url>> \o keys

\* line 632: processed_content[clean_url] = ...
store(keys, clean_url) ==
    IF clean_url \in Range(keys) THEN keys ELSE Append(keys, clean_url)

\* line 606: a string that starts with "<e>" is embedded raw, any other escaped
pdf_escaped(outcome) ==
    ~starts_with_e(outcome)

\* lines 605-607, 631: the <page> element of a PDF
pdf_record(clean_url, depth, outcome) ==
    IF outcome.raised
    THEN page_record(clean_url, depth, "error", <<"page_error">>, FALSE)
    ELSE page_record(clean_url, depth, "pdf", outcome.value, pdf_escaped(outcome.value))

\* variant of downloads_pdf that downloads whatever the configuration says
downloads_pdf_always(inc_pdf) ==
    TRUE

\* line 604: a PDF is downloaded and read only when include_pdfs is set
downloads_pdf(inc_pdf) ==
    inc_pdf

\* variant of walks_links that walks the anchors of a page at any depth
walks_links_at_any_depth(depth, max_d) ==
    TRUE

\* line 619: the anchors of an HTML page are walked only below max_depth
walks_links(depth, max_d) ==
    depth < max_d

NoPage == [url |-> <<>>, depth |-> 0]

\* variant of after_link_error without the handler of line 630: the exception
\* reaches the handler of line 631 and the walk of the page is over
after_link_error_uncaught(pg) ==
    NoPage

\* line 630: the exception of one anchor is caught and printed; the page whose
\* anchors are walked stays the same
after_link_error(pg) ==
    pg

NoContent == [pieces |-> <<>>, escaped |-> FALSE]
NoAlias == [is_file |-> FALSE, found |-> FALSE, targets |-> <<>>]
NoConfig == [verbosity |-> 0, output_format |-> "", framework |-> "", report_format |-> "",
             parallel_execution |-> FALSE, max_workers |-> <<>>]
Unbound == "unbound"

\* the program is loaded and nothing has been called
Init ==
    /\ base_url = <<>>
    /\ max_depth = 0
    /\ include_pdfs = FALSE
    /\ ignore_epubs = FALSE
    /\ visited = {}
    /\ to_visit = <<>>
    /\ all_text_xml = <<>>
    /\ processed_content = <<>>
    /\ crawl_pc = "idle"
    /\ visited_adds = <<>>
    /\ fetched = <<>>
    /\ enqueued = {}
    /\ page = NoPage
    /\ last_link = NoLink
    /\ anchors = 0
    /\ link_errors = 0
    /\ input_path = <<>>
    /\ fs_kind = "none"
    /\ handler = "none"
    /\ dispatch_raised = "none"
    /\ result = <<>>
    /\ raised = "none"
    /\ input_pc = "idle"
    /\ content_to_insert = NoContent
    /\ doi_tried = <<>>
    /\ argv = <<>>
    /\ stdin_isatty = TRUE
    /\ stream_text = <<>>
    /\ alias_file = NoAlias
    /\ raw_args = <<>>
    /\ input_paths = <<>>
    /\ is_stream_input_mode = Unbound
    /\ user_fmt_override = <<>>
    /\ outputs = <<>>
    /\ main_pc = "idle"
    /\ main_error = "none"
    /\ temp_log = {}
    /\ headers = {"Authorization"}
    /\ with_auth = {}
    /\ config_args = NoConfig
    /\ config = NoConfig
    /\ config_error = "none"
    /\ req_pc = [r \in {1, 2} |-> "idle"]
    /\ temp_pdf_path = [r \in {1, 2} |-> "none"]
    /\ temp_files = [f \in {"temp_web.pdf", "temp_arxiv.pdf"} |-> 0]
    /\ req_text = [r \in {1, 2} |-> 0]
    /\ interfered = {}

Idle ==
    crawl_pc = "idle" /\ input_pc = "idle" /\ main_pc = "idle"

\* lines 588-593: the state of a crawl that starts
crawl_started(base, max_d, inc_pdf, ign_epub) ==
    /\ base_url' = base
    /\ max_depth' = max_d
    /\ include_pdfs' = inc_pdf
    /\ ignore_epubs' = ign_epub
    /\ visited' = {}
    /\ to_visit' = << <<base, 0>> >>
    /\ all_text_xml' = <<>>
    /\ processed_content' = <<>>
    /\ crawl_pc' = "loop"
    /\ visited_adds' = <<>>
    /\ fetched' = <<>>
    /\ enqueued' = {}
    /\ page' = NoPage
    /\ last_link' = NoLink
    /\ anchors' = 0
    /\ link_errors' = 0

\* crawl_and_extract_text is called, with any arguments
CrawlCall ==
    /\ Idle
    /\ \E base \in Bases, max_d \in 0..MaxDepthArg, inc_pdf \in BOOLEAN, ign_epub \in BOOLEAN :
          crawl_started(base, max_d, inc_pdf, ign_epub)

crawl_args == <<base_url, max_depth, include_pdfs, ignore_epubs>>

\* line 594: the loop test passes and no page is half done
Looping ==
    crawl_pc = "loop" /\ page = NoPage /\ to_visit # <<>>

\* line 598: continue
CrawlDiscard ==
    /\ Looping
    /\ discarded(curr_clean)
    /\ to_visit' = pop_entry(to_visit).rest
    /\ UNCHANGED <<with_auth, temp_log, crawl_args, visited, all_text_xml, processed_content, crawl_pc,
                   visited_adds, fetched, enqueued, page, last_link, anchors, link_errors>>

\* line 599: the EPUB is marked visited and nothing is recorded
CrawlSkipEpub ==
    /\ Looping
    /\ ~discarded(curr_clean)
    /\ epub_skipped(curr_clean)
    /\ to_visit' = pop_entry(to_visit).rest
    /\ visited' = visited \cup {curr_clean}
    /\ visited_adds' = Append(visited_adds, curr_clean)
    /\ UNCHANGED <<with_auth, temp_log, crawl_args, all_text_xml, processed_content, crawl_pc, fetched,
                   enqueued, page, last_link, anchors, link_errors>>

Processing ==
    /\ Looping
    /\ ~discarded(curr_clean)
    /\ ~epub_skipped(curr_clean)

\* lines 595-632 for a page without anchors to walk: the URL is marked visited
\* (line 600), `gets` requests are made, the page element is appended (line 632)
Processed(record, gets) ==
    /\ to_visit' = pop_entry(to_visit).rest
    /\ visited' = visited \cup {curr_clean}
    /\ visited_adds' = Append(visited_adds, curr_clean)
    /\ all_text_xml' = Append(all_text_xml, record)
    /\ processed_content' = store(processed_content, curr_clean)
    /\ fetched' = fetched \o gets
    /\ with_auth' = with_auth \cup UNION {carriers(IF gets[i].outcome = "pdf"
                                                    THEN "process_web_pdf"
                                                    ELSE "crawl_and_extract_text") :
                                             i \in 1..Len(gets)}
    /\ UNCHANGED <<crawl_args, crawl_pc, enqueued, page, last_link, anchors, link_errors>>

\* lines 603-607: a PDF page, PDFs included
CrawlPdfFetch ==
    /\ Processing
    /\ PdfTable[curr_clean]
    /\ downloads_pdf(include_pdfs)
    /\ \E ans \in PdfAnswers, remove_fails \in BOOLEAN :
          /\ Processed(pdf_record(curr_clean, curr_depth, process_web_pdf(ans, remove_fails)),
                       << [url |-> curr_clean, outcome |-> "pdf"] >>)
          /\ temp_log' = temp_log \cup {temp_entry("process_web_pdf", Len(fetched) + 1, ans, remove_fails)}

\* line 608: a PDF page, PDFs not included
CrawlPdfIgnored ==
    /\ Processing
    /\ PdfTable[curr_clean]
    /\ ~downloads_pdf(include_pdfs)
    /\ Processed(page_record(curr_clean, curr_depth, "skipped_pdf_disabled", <<"skipped">>, FALSE),
                 <<>>)
    /\ UNCHANGED temp_log

\* variant of fetch_failed without the handler of line 631: the exception leaves
\* the crawl
fetch_failed_uncaught(clean_url, depth, tv) ==
    [record |-> page_record(clean_url, depth, "error", <<"page_error">>, FALSE),
     to_visit |-> pop_entry(tv).rest,
     pc |-> "raised"]

\* lines 610, 614-617 raise; the handler of line 631 records the failure and the
\* loop goes on
fetch_failed(clean_url, depth, tv) ==
    [record |-> page_record(clean_url, depth, "error", <<"page_error">>, FALSE),
     to_visit |-> pop_entry(tv).rest,
     pc |-> "loop"]

CrawlFetchFail ==
    /\ Processing
    /\ ~PdfTable[curr_clean]
    /\ visited' = visited \cup {curr_clean}
    /\ visited_adds' = Append(visited_adds, curr_clean)
    /\ fetched' = Append(fetched, [url |-> curr_clean, outcome |-> "fail"])
    /\ with_auth' = with_auth \cup carriers("crawl_and_extract_text")
    /\ crawl_pc' = fetch_failed(curr_clean, curr_depth, to_visit).pc
    /\ to_visit' = fetch_failed(curr_clean, curr_depth, to_visit).to_visit
    /\ IF crawl_pc' = "loop"
       THEN /\ all_text_xml' = Append(all_text_xml,
                                      fetch_failed(curr_clean, curr_depth, to_visit).record)
            /\ processed_content' = store(processed_content, curr_clean)
       ELSE UNCHANGED <<all_text_xml, processed_content>>
    /\ UNCHANGED <<temp_log, crawl_args, enqueued, page, last_link, anchors, link_errors>>

\* lines 611-612: the answer is not text/html
CrawlFetchNonHtml ==
    /\ Processing
    /\ ~PdfTable[curr_clean]
    /\ Processed(page_record(curr_clean, curr_depth, "skipped_non_html", <<"skipped">>, FALSE),
                 << [url |-> curr_clean, outcome |-> "nonhtml"] >>)
    /\ UNCHANGED temp_log

\* lines 613-619 at depth = max_depth: an HTML page whose anchors are not walked
CrawlFetchHtmlLeaf ==
    /\ Processing
    /\ ~PdfTable[curr_clean]
    /\ ~walks_links(curr_depth, max_depth)
    /\ Processed(page_record(curr_clean, curr_depth, "ok", <<"text">>, TRUE),
                 << [url |-> curr_clean, outcome |-> "html"] >>)
    /\ UNCHANGED temp_log

\* lines 595-619 at depth < max_depth: an HTML page; its anchors are walked next
CrawlFetchHtml ==
    /\ Processing
    /\ ~PdfTable[curr_clean]
    /\ walks_links(curr_depth, max_depth)
    /\ to_visit' = pop_entry(to_visit).rest
    /\ visited' = visited \cup {curr_clean}
    /\ visited_adds' = Append(visited_adds, curr_clean)
    /\ fetched' = Append(fetched, [url |-> curr_clean, outcome |-> "html"])
    /\ with_auth' = with_auth \cup carriers("crawl_and_extract_text")
    /\ page' = [url |-> curr_clean, depth |-> curr_depth]
    /\ UNCHANGED <<temp_log, crawl_args, all_text_xml, processed_content, crawl_pc, enqueued,
                   last_link, anchors, link_errors>>

\* lines 620-630: one anchor of the page, any href
CrawlLink ==
    /\ crawl_pc = "loop"
    /\ page # NoPage
    /\ anchors < MaxLinks
    /\ \E new_raw \in Hrefs :
          /\ to_visit' = enqueue_link(new_raw, to_visit, visited, page.url, page.depth)
          /\ last_link' = LinkTable[page.url, new_raw]
          /\ link_errors' = IF LinkRaisesTable[page.url, new_raw]
                            THEN link_errors + 1 ELSE link_errors
          /\ page' = IF LinkRaisesTable[page.url, new_raw]
                     THEN after_link_error(page) ELSE page
    /\ enqueued' = enqueued \cup {e[1] : e \in Range(to_visit') \ Range(to_visit)}
    /\ anchors' = anchors + 1
    /\ IF page' = NoPage
       THEN /\ all_text_xml' = Append(all_text_xml,
                                      page_record(page.url, page.depth, "error",
                                                  <<"page_error">>, FALSE))
            /\ processed_content' = store(processed_content, page.url)
       ELSE UNCHANGED <<all_text_xml, processed_content>>
    /\ UNCHANGED <<with_auth, temp_log, crawl_args, visited, crawl_pc, visited_adds, fetched>>

\* line 632: the page has no further anchor; its element is appended
CrawlPageDone ==
    /\ crawl_pc = "loop"
    /\ page # NoPage
    /\ all_text_xml' = Append(all_text_xml,
                              page_record(page.url, page.depth, "ok", <<"text">>, TRUE))
    /\ processed_content' = store(processed_content, page.url)
    /\ page' = NoPage
    /\ UNCHANGED <<with_auth, temp_log, crawl_args, visited, to_visit, crawl_pc, visited_adds, fetched,
                   enqueued, last_link, anchors, link_errors>>

\* lines 594, 633-634: the frontier is empty, the crawl returns
CrawlReturn ==
    /\ crawl_pc = "loop"
    /\ page = NoPage
    /\ to_visit = <<>>
    /\ crawl_pc' = "returned"
    /\ UNCHANGED <<with_auth, temp_log, crawl_args, visited, to_visit, all_text_xml, processed_content,
                   visited_adds, fetched, enqueued, page, last_link, anchors, link_errors>>

(***************************************************************************)
(* dispatch_processing and process_input                                   *)
(***************************************************************************)
Str_github_com == <<"github", ".", "com">>
Str_youtube_com == <<"youtu", "be", ".", "com">>
Str_arxiv_abs == <<"arxiv", ".", "org", "/", "abs", "/">>
Str_https == <<"https", ":", "/", "/">>

\* the strings process_input is called with
Inputs ==
    { Str_https \o Str_github_com \o <<"/", "o", "/", "r", "/", "pull", "/", "5">>,
      Str_https \o Str_github_com \o <<"/", "o", "/", "r", "/", "issues", "/", "5">>,
      Str_https \o Str_github_com \o <<"/", "o", "/", "r", "/", "issues", "/", "5", "/", "pull", "/">>,
      Str_https \o Str_github_com \o <<"/", "o", "/", "r">>,
      Str_github_com \o <<"/", "o", "/", "r">>,                       \* no scheme
      Str_https \o Str_youtube_com \o <<"/", "w">>,
      Str_https \o <<"youtu", ".", "be">> \o <<"/", "w">>,
      Str_https \o Str_youtube_com \o <<"/", "w", ".", "pdf">>,
      Str_https \o Str_arxiv_abs \o <<"5">>,
      Str_https \o Str_arxiv_abs \o <<"5", ".", "pdf">>,
      <<"http", ":", "/", "/", "h", "/", "d", "/", "p", ".", "pdf">>,
      <<"https", ":", "/", "/", "h", "/", "d", "/", "p", ".", "PDF">>,
      Str_https \o <<"h", "/", "n", ".", "xls">>,
      Str_https \o <<"h", "/", "n", ".", "xls", "x">>,
      Str_https \o <<"h", "/", "n", ".", "txt">>,
      Str_https \o <<"h", "/", "d">>,
      <<"http", ":", "/", "/", "h", "/", "d">>,
      <<"http", ":", "/", "/", "[", "h", "/", "d">>,                  \* urlparse raises
      <<"ftp", ":", "/", "/", "h", "/", "n", ".", "txt">>,
      <<"10", ".", "5", "/", "x">>,                                   \* a DOI
      <<"10", ".", "5">>,
      <<"23">>,                                                       \* a PMID
      <<"dir">>,
      <<"n", ".", "txt">>,
      <<"n", ".", "pdf">>,
      <<"n", ".", "xls">>,
      <<"n", ".", "ipynb">>,
      <<"zzz">> }

FsKinds == {"dir", "file", "none"}

\* lines 800, 828
is_excel(s) ==
    endswith(lower(s), <<".", "xls">>) \/ endswith(lower(s), <<".", "xls", "x">>)

\* line 819
is_doi_or_pmid(s) ==
    (startswith(s, <<"10", ".">>) /\ contains(s, <<"/">>)) \/ isdigit(s)

\* where dispatch_processing goes: the handler it calls, or the exception its
\* own code raises
called(h) == [handler |-> h, raises |-> "none"]
fails(exc) == [handler |-> "none", raises |-> exc]

\* lines 788-791
github_route(s) ==
    IF contains(s, <<"/", "pull", "/">>) THEN called("process_github_pull_request")
    ELSE IF contains(s, <<"/", "issues", "/">>) THEN called("process_github_issue")
    ELSE called("process_github_repo")

\* lines 793-818.  Line 809 builds its list of extensions with
\* is_allowed_filetype, a name the module neither defines nor imports: the
\* test raises NameError, and the branches of lines 810-818 are never entered.
web_route(s) ==
    IF contains(s, Str_youtube_com) \/ contains(s, <<"youtu", ".", "be">>)
    THEN called("fetch_youtube_transcript")
    ELSE IF contains(s, Str_arxiv_abs) THEN called("process_arxiv_pdf")
    ELSE IF is_pdf(s) THEN called("crawl_and_extract_text")
    ELSE IF is_excel(s) THEN called("excel_to_markdown_from_url")
    ELSE fails("NameError")

\* lines 824-838
file_route(s) ==
    IF is_pdf(s) THEN called("_process_pdf_content_from_path")
    ELSE IF is_excel(s) THEN called("excel_to_markdown")
    ELSE called("safe_file_read")

\* lines 788-839
dispatch_route(s, fs) ==
    IF contains(s, Str_github_com) THEN github_route(s)
    ELSE IF urlparse_raises(s) THEN fails("ValueError")
    ELSE IF urlparse(s).scheme \in {<<"http">>, <<"https">>} THEN web_route(s)
    ELSE IF is_doi_or_pmid(s) THEN called("process_doi_or_pmid")
    ELSE IF fs = "dir" THEN called("process_local_folder")
    ELSE IF fs = "file" THEN file_route(s)
    ELSE fails("ValueError")

\* the type attribute of the <source> element a handler builds
block_type(h) ==
    CASE h = "process_github_pull_request" -> "github_pull_request"
      [] h = "process_github_issue" -> "github_issue"
      [] h = "process_github_repo" -> "github_repository"
      [] h = "fetch_youtube_transcript" -> "youtube_transcript"
      [] h = "process_arxiv_pdf" -> "arxiv"
      [] h = "crawl_and_extract_text" -> "web_crawl"
      [] h = "excel_to_markdown_from_url" -> "web_excel"
      [] h = "process_doi_or_pmid" -> "sci-hub"
      [] h = "process_local_folder" -> "local_folder"
      [] OTHER -> "local_file"

\* a <source> element: its type, the path or URL it names, and what it holds
source_block(type, ref, body) ==
    [type |-> type, ref |-> ref, body |-> body]

\* what the call of a handler may do: return its block, with content or with an
\* error marker inside, or raise (safe_file_read at line 837 lets OSError
\* through, process_doi_or_pmid the os.remove of its finally clause)
HandlerOutcomes(h) ==
    IF h \in {"safe_file_read", "process_doi_or_pmid"}
    THEN {"content", "error_marker", "raises"}
    ELSE {"content", "error_marker"}

\* lines 781-840: what leaves dispatch_processing, an exception or a value
dispatched(input, route, outcome) ==
    IF route.raises # "none" THEN [raised |-> route.raises, value |-> <<>>]
    ELSE IF outcome = "raises" THEN [raised |-> "OSError", value |-> <<>>]
    ELSE [raised |-> "none",
          value |-> <<source_block(block_type(route.handler), input, outcome)>>]

\* variant of caught without the except clause of lines 848-850
caught_nothing(input, d) ==
    d

\* lines 845-850: the try of process_input
caught(input, d) ==
    IF d.raised # "none"
    THEN [raised |-> "none", value |-> <<source_block("error", input, "Failed")>>]
    ELSE d

\* process_input is called, with any string and any file system
ProcessInputCall ==
    /\ Idle
    /\ \E input \in Inputs, fs \in FsKinds :
          /\ input_path' = input
          /\ fs_kind' = fs
    /\ input_pc' = "dispatch"
    /\ UNCHANGED <<handler, dispatch_raised, result, raised, content_to_insert, doi_tried>>

\* lines 842-850 around lines 781-840, for every route but the crawl and the
\* PDF handlers
Dispatch ==
    /\ input_pc = "dispatch"
    /\ dispatch_route(input_path, fs_kind).handler
          \notin {"crawl_and_extract_text", "process_arxiv_pdf", "process_doi_or_pmid",
                  "_process_pdf_content_from_path"}
    /\ handler' = dispatch_route(input_path, fs_kind).handler
    /\ \E outcome \in HandlerOutcomes(handler') :
          /\ dispatch_raised' =
                dispatched(input_path, dispatch_route(input_path, fs_kind), outcome).raised
          /\ result' =
                caught(input_path,
                       dispatched(input_path, dispatch_route(input_path, fs_kind), outcome)).value
          /\ raised' =
                caught(input_path,
                       dispatched(input_path, dispatch_route(input_path, fs_kind), outcome)).raised
    /\ with_auth' = with_auth \cup carriers(handler')
    /\ input_pc' = "done"
    /\ UNCHANGED <<input_path, fs_kind, content_to_insert, doi_tried>>

\* lines 797-799: a PDF URL is crawled as a single page, with the ignore_epubs
\* of the configuration of line 844
DispatchCrawl ==
    /\ input_pc = "dispatch"
    /\ dispatch_route(input_path, fs_kind).handler = "crawl_and_extract_text"
    /\ crawl_started(input_path, 0, TRUE, TRUE)
    /\ handler' = "crawl_and_extract_text"
    /\ input_pc' = "crawl"
    /\ UNCHANGED <<input_path, fs_kind, dispatch_raised, result, raised, content_to_insert,
                   doi_tried>>

\* lines 799, 840, 847: the crawl returned, its content is the result
DispatchCrawlReturned ==
    /\ input_pc = "crawl"
    /\ crawl_pc = "returned"
    /\ result' = <<source_block("web_crawl", input_path,
                                IF all_text_xml = <<>> THEN "no_page" ELSE "pages")>>
    /\ input_pc' = "done"
    /\ UNCHANGED <<input_path, fs_kind, handler, dispatch_raised, raised, content_to_insert,
                   doi_tried>>

\* lines 385, 678, 826 (and 606, 813): content_to_insert; a string that starts
\* with "<e>" is put in raw, any other is escaped as a whole
inserted(raw) ==
    [pieces |-> raw, escaped |-> ~starts_with_e(raw)]

\* a handler's own "<error>...</error>" element, written raw around an escaped
\* message (lines 391, 394, 682)
own_error == [pieces |-> <<"error">>, escaped |-> FALSE]

\* what a PDF handler leaves: an exception, or the content of its block
handler_raised == [raised |-> TRUE, content |-> NoContent]
handler_returned(content) == [raised |-> FALSE, content |-> content]

\* lines 842-850 around a PDF handler: the block, or the error block
PdfDispatched(h, out) ==
    /\ handler' = h
    /\ dispatch_raised' = IF out.raised THEN "OSError" ELSE "none"
    /\ result' = caught(input_path,
                        dispatched(input_path, called(h),
                                   IF out.raised THEN "raises"
                                   ELSE IF out.content.escaped THEN "content"
                                   ELSE "error_marker")).value
    /\ raised' = caught(input_path,
                        dispatched(input_path, called(h),
                                   IF out.raised THEN "raises" ELSE "content")).raised
    /\ content_to_insert' = out.content
    /\ with_auth' = with_auth \cup carriers(h)
    /\ input_pc' = "done"
    /\ UNCHANGED <<input_path, fs_kind>>

\* lines 275-287: _process_pdf_content_from_path; a file that cannot be opened
\* or read gives an "<e>" marker
process_pdf_content_from_path(ans) ==
    IF ans.answer = "pdf" THEN ans.extracted ELSE <<"e">>

\* lines 824-827: a local PDF file
DispatchPdfFile ==
    /\ input_pc = "dispatch"
    /\ dispatch_route(input_path, fs_kind).handler = "_process_pdf_content_from_path"
    /\ \E ans \in {a \in PdfAnswers : a.answer \in {"unreadable", "pdf"}} :
          PdfDispatched("_process_pdf_content_from_path",
                        handler_returned(inserted(process_pdf_content_from_path(ans))))
    /\ UNCHANGED <<doi_tried, temp_log>>

\* lines 375-396: process_arxiv_pdf; the content type is not looked at, what
\* is no PDF makes PdfReader raise
process_arxiv_pdf(ans, remove_fails) ==
    IF temp_written(ans) /\ remove_fails THEN handler_raised
    ELSE IF ans.answer = "pdf"
    THEN handler_returned(inserted(ans.extracted))
    ELSE handler_returned(own_error)

\* lines 795-796
DispatchArxiv ==
    /\ input_pc = "dispatch"
    /\ dispatch_route(input_path, fs_kind).handler = "process_arxiv_pdf"
    /\ \E ans \in {a \in PdfAnswers : a.answer # "not_pdf"}, remove_fails \in BOOLEAN :
          /\ PdfDispatched("process_arxiv_pdf", process_arxiv_pdf(ans, remove_fails))
          /\ temp_log' = temp_log \cup {temp_entry("process_arxiv_pdf", 1, ans, remove_fails)}
    /\ UNCHANGED doi_tried

\* line 638: len(sci_hub_domains)
SciHubDomains == 3

\* what one attempt of lines 646-672 meets: the POST fails, the page holds no
\* PDF link, or the download goes as PdfAnswers says
DoiAnswers ==
    {[answer |-> a, extracted |-> <<>>] : a \in {"post_fails", "no_link"}} \cup PdfAnswers

\* line 670: the loop is left when the extracted string does not start with "<e>"
doi_break(raw) ==
    ~starts_with_e(raw)

\* lines 644-674: the loop over the domains, from attempt Len(tried) + 1 on;
\* fails_at is the attempt whose os.remove (line 674) raises, 0 for none
RECURSIVE doi_loop(_, _, _, _)
doi_loop(todo, raw, tried, fails_at) ==
    IF todo = <<>> THEN [tried |-> tried, raw |-> raw, raised |-> FALSE]
    ELSE IF temp_written(Head(todo)) /\ fails_at = Len(tried) + 1
    THEN [tried |-> Append(tried, Head(todo)), raw |-> raw, raised |-> TRUE]
    ELSE IF Head(todo).answer # "pdf"
    THEN doi_loop(Tail(todo), raw, Append(tried, Head(todo)), fails_at)
    ELSE IF doi_break(Head(todo).extracted)
    THEN [tried |-> Append(tried, Head(todo)),
          raw |-> Head(todo).extracted, raised |-> FALSE]
    ELSE doi_loop(Tail(todo), Head(todo).extracted,
                  Append(tried, Head(todo)), fails_at)

\* lines 637-684: process_doi_or_pmid
process_doi_or_pmid(loop) ==
    IF loop.raised THEN handler_raised
    ELSE IF loop.raw # <<>> THEN handler_returned(inserted(loop.raw))
    ELSE handler_returned(own_error)

\* lines 819-820
DispatchDoi ==
    /\ input_pc = "dispatch"
    /\ dispatch_route(input_path, fs_kind).handler = "process_doi_or_pmid"
    /\ \E todo \in [1..SciHubDomains -> DoiAnswers], fails_at \in 0..SciHubDomains :
          /\ doi_tried' = doi_loop(todo, <<>>, <<>>, fails_at).tried
          /\ PdfDispatched("process_doi_or_pmid",
                           process_doi_or_pmid(doi_loop(todo, <<>>, <<>>, fails_at)))
          /\ temp_log' = temp_log \cup {temp_entry("process_doi_or_pmid", i, todo[i], fails_at = i) :
                                           i \in 1..Len(doi_tried')}

(***************************************************************************)
(* main                                                                    *)
(***************************************************************************)
MaxArgs == 2

\* the command-line arguments
Args ==
    { <<"n", ".", "txt">>, <<"zzz">>, <<"--help">>, <<"--format">>, <<"-f">>, <<"-">>,
      <<"--clipboard">>, <<"-c">>, <<"--add-alias">> }

\* what load_alias (lines 526-535) meets for a name: is_file is line 529,
\* found says that it returns a list (the file is there and was read; an
\* IOError of the read makes it return None, line 534), targets is the list:
\* no alias file, one that cannot be read, an empty one, one with a target,
\* and one whose first target is itself the name of an alias
AliasFiles ==
    { NoAlias,
      [is_file |-> TRUE, found |-> FALSE, targets |-> <<>>],
      [is_file |-> TRUE, found |-> TRUE, targets |-> <<>>],
      [is_file |-> TRUE, found |-> TRUE, targets |-> << <<"n", ".", "txt">> >>],
      [is_file |-> TRUE, found |-> TRUE, targets |-> << <<"zzz">>, <<"n", ".", "txt">> >>] }

\* list.pop(i), 1-based
pop_at(l, i) ==
    SubSeq(l, 1, i - 1) \o SubSeq(l, i + 1, Len(l))

\* list.remove(x) under "if x in list"
remove_if_in(l, x) ==
    IF x \in Range(l) THEN pop_at(l, find(l, x)) ELSE l

\* lines 865-871: the flag that sets the format, <<>> when there is none
format_flag(l) ==
    IF <<"--format">> \in Range(l) THEN <<"--format">>
    ELSE IF <<"-f">> \in Range(l) THEN <<"-f">>
    ELSE <<>>

\* lines 867, 871: the flag is the last argument
format_type_missing(l) ==
    format_flag(l) # <<>> /\ ~(find(l, format_flag(l)) < Len(l))

\* lines 867, 871: user_fmt_override
format_of(l) ==
    IF format_flag(l) = <<>> THEN <<>> ELSE lower(l[find(l, format_flag(l)) + 1])

\* lines 867, 871, 874: raw_args without the flag and its type
without_format(l) ==
    IF format_flag(l) = <<>> THEN l
    ELSE pop_at(pop_at(l, find(l, format_flag(l)) + 1), find(l, format_flag(l)))

\* lines 876-877, 882: a stream is to be read
reads_stdin(l, tty) ==
    <<"-">> \in Range(l) /\ ~tty

reads_clipboard(l) ==
    <<"-">> \notin Range(l) /\ (<<"--clipboard">> \in Range(l) \/ <<"-c">> \in Range(l))

\* lines 881, 887-888: raw_args without the flags of the stream
without_stream(l, tty) ==
    IF reads_stdin(l, tty) THEN remove_if_in(l, <<"-">>)
    ELSE IF reads_clipboard(l) THEN remove_if_in(remove_if_in(l, <<"--clipboard">>), <<"-c">>)
    ELSE l

\* lines 479-480
is_potential_alias(arg_string) ==
    /\ arg_string # <<>>
    /\ \A i \in 1..Len(arg_string) : arg_string[i] \notin {".", "/", ":", "\\"}

\* variant of resolve_single_input_source that resolves the targets of an
\* alias once more
resolve_single_input_source_again(source_string, af) ==
    IF is_potential_alias(source_string) /\ af.found
    THEN (IF af.targets # <<>> /\ is_potential_alias(af.targets[1]) THEN af.targets ELSE <<>>)
         \o af.targets
    ELSE <<source_string>>

\* lines 537-548
resolve_single_input_source(source_string, af) ==
    IF is_potential_alias(source_string) /\ af.found THEN af.targets ELSE <<source_string>>

\* line 895
RECURSIVE resolve_all(_, _)
resolve_all(l, af) ==
    IF l = <<>> THEN <<>>
    ELSE resolve_single_input_source(Head(l), af) \o resolve_all(Tail(l), af)

\* lines 881, 886: stream_source_dict['type']
stream_type(l, tty) ==
    IF reads_stdin(l, tty) THEN "stdin" ELSE "clipboard"

\* lines 126-139: the block of a stream
stream_block(type, fmt) ==
    [type |-> type, ref |-> fmt, body |-> "content"]

\* lines 842-850 in one piece: the values process_input may return for a path
process_input_returns(input) ==
    { caught(input, dispatched(input, dispatch_route(input, fs), outcome)).value :
        fs \in FsKinds, outcome \in {"content", "error_marker", "raises"} }

\* lines 913-915: the lists the loop over input_paths may build
processed_lists(paths) ==
    { l \in [1..Len(paths) -> UNION {Range(v) : v \in UNION {process_input_returns(q) :
                                                    q \in Range(paths)}}] :
        \A i \in 1..Len(paths) : <<l[i]>> \in process_input_returns(paths[i]) }

\* main is run, with any arguments, terminal and stream
MainCall ==
    /\ Idle
    /\ \E args \in SeqsUpTo(Args, MaxArgs), tty \in BOOLEAN, text \in {<<>>, <<"text">>},
          af \in AliasFiles :
          /\ argv' = args
          /\ raw_args' = args
          /\ stdin_isatty' = tty
          /\ stream_text' = text
          /\ alias_file' = af
    /\ main_pc' = "args"
    /\ UNCHANGED <<input_paths, is_stream_input_mode, user_fmt_override, outputs, main_error>>

Returns ==
    /\ main_pc' = "returned"
    /\ UNCHANGED <<argv, stdin_isatty, stream_text, alias_file, raw_args, input_paths,
                   is_stream_input_mode, user_fmt_override, outputs, main_error>>

Raises(exc) ==
    /\ main_pc' = "raised"
    /\ main_error' = exc
    /\ UNCHANGED <<argv, stdin_isatty, stream_text, alias_file, raw_args, input_paths,
                   is_stream_input_mode, user_fmt_override, outputs>>

\* lines 854-895 return before any input is looked at: help, a format flag
\* without its type, an empty stream, or the management of an alias
returns_early(l, tty, text) ==
    \/ <<"--help">> \in Range(l) \/ <<"-h">> \in Range(l)
    \/ format_type_missing(l)
    \/ (reads_stdin(without_format(l), tty) \/ reads_clipboard(without_format(l)))
          /\ text = <<>>
    \/ /\ without_stream(without_format(l), tty) # <<>>
       /\ Head(without_stream(without_format(l), tty)) \in
             {<<"--add-alias">>, <<"--alias-from-clipboard">>}

\* lines 854-895: the arguments are read.  Line 860 sets stream_input_mode, a
\* name nothing reads; is_stream_input_mode is only assigned at lines 881, 886
MainParseArgs ==
    /\ main_pc = "args"
    /\ IF returns_early(argv, stdin_isatty, stream_text)
       THEN Returns
       ELSE /\ user_fmt_override' = format_of(argv)
            /\ is_stream_input_mode' =
                  IF reads_stdin(without_format(argv), stdin_isatty)
                     \/ reads_clipboard(without_format(argv))
                  THEN "True" ELSE Unbound
            /\ raw_args' = without_stream(without_format(argv), stdin_isatty)
            /\ input_paths' = resolve_all(raw_args', alias_file)
            /\ main_pc' = "inputs"
            /\ UNCHANGED <<argv, stdin_isatty, stream_text, alias_file, outputs, main_error>>

\* lines 897-904: "not input_paths and not is_stream_input_mode" reads the
\* local only when input_paths is empty; the local is True when bound, so the
\* bodies of the two tests are never entered
MainCheckInputs ==
    /\ main_pc = "inputs"
    /\ IF input_paths = <<>> /\ is_stream_input_mode = Unbound
       THEN Raises("UnboundLocalError")
       ELSE /\ main_pc' = "process"
            /\ UNCHANGED <<argv, stdin_isatty, stream_text, alias_file, raw_args,
                           input_paths, is_stream_input_mode, user_fmt_override, outputs,
                           main_error>>

\* lines 906-917: line 907 reads is_stream_input_mode; bound, it is True and the
\* stream is processed (process_text_stream returns None when its parser
\* fails); the loop of lines 910-917 is the elif of that test
MainProcess ==
    /\ main_pc = "process"
    /\ IF is_stream_input_mode = Unbound
       THEN Raises("UnboundLocalError")
       ELSE /\ IF stream_text # <<>>
               THEN \E parsed \in BOOLEAN :
                       outputs' = IF parsed
                                  THEN <<stream_block(
                                           stream_type(without_format(argv), stdin_isatty),
                                           user_fmt_override)>>
                                  ELSE <<>>
               ELSE outputs' \in processed_lists(input_paths)
            /\ main_pc' = "combine"
            /\ UNCHANGED <<argv, stdin_isatty, stream_text, alias_file, raw_args,
                           input_paths, is_stream_input_mode, user_fmt_override, main_error>>

\* lines 919-920: without outputs main returns; with outputs line 920 calls
\* combine_xml_outputs, a name the module neither defines nor imports
MainCombine ==
    /\ main_pc = "combine"
    /\ IF outputs = <<>> THEN Returns ELSE Raises("NameError")

Next ==
    \/ CrawlCall /\ UNCHANGED <<input_vars, main_vars, disk_vars, config_vars, auth_vars, web_vars>>
    \/ CrawlDiscard /\ UNCHANGED <<input_vars, main_vars, config_vars, headers, web_vars>>
    \/ CrawlSkipEpub /\ UNCHANGED <<input_vars, main_vars, config_vars, headers, web_vars>>
    \/ CrawlPdfFetch /\ UNCHANGED <<input_vars, main_vars, config_vars, headers, web_vars>>
    \/ CrawlPdfIgnored /\ UNCHANGED <<input_vars, main_vars, config_vars, headers, web_vars>>
    \/ CrawlFetchFail /\ UNCHANGED <<input_vars, main_vars, config_vars, headers, web_vars>>
    \/ CrawlFetchNonHtml /\ UNCHANGED <<input_vars, main_vars, config_vars, headers, web_vars>>
    \/ CrawlFetchHtmlLeaf /\ UNCHANGED <<input_vars, main_vars, config_vars, headers, web_vars>>
    \/ CrawlFetchHtml /\ UNCHANGED <<input_vars, main_vars, config_vars, headers, web_vars>>
    \/ CrawlLink /\ UNCHANGED <<input_vars, main_vars, config_vars, headers, web_vars>>
    \/ CrawlPageDone /\ UNCHANGED <<input_vars, main_vars, config_vars, headers, web_vars>>
    \/ CrawlReturn /\ UNCHANGED <<input_vars, main_vars, config_vars, headers, web_vars>>
    \/ ProcessInputCall /\ UNCHANGED <<crawl_vars, main_vars, disk_vars, config_vars, auth_vars, web_vars>>
    \/ Dispatch /\ UNCHANGED <<crawl_vars, main_vars, disk_vars, config_vars, headers, web_vars>>
    \/ DispatchCrawl /\ UNCHANGED <<main_vars, disk_vars, config_vars, auth_vars, web_vars>>
    \/ DispatchCrawlReturned /\ UNCHANGED <<crawl_vars, main_vars, disk_vars, config_vars, auth_vars, web_vars>>
    \/ DispatchPdfFile /\ UNCHANGED <<crawl_vars, main_vars, config_vars, headers, web_vars>>
    \/ DispatchArxiv /\ UNCHANGED <<crawl_vars, main_vars, config_vars, headers, web_vars>>
    \/ DispatchDoi /\ UNCHANGED <<crawl_vars, main_vars, config_vars, headers, web_vars>>
    \/ MainCall /\ UNCHANGED <<crawl_vars, input_vars, disk_vars, config_vars, auth_vars, web_vars>>
    \/ MainParseArgs /\ UNCHANGED <<crawl_vars, input_vars, disk_vars, config_vars, auth_vars, web_vars>>
    \/ MainCheckInputs /\ UNCHANGED <<crawl_vars, input_vars, disk_vars, config_vars, auth_vars, web_vars>>
    \/ MainProcess /\ UNCHANGED <<crawl_vars, input_vars, disk_vars, config_vars, auth_vars, web_vars>>
    \/ MainCombine /\ UNCHANGED <<crawl_vars, input_vars, disk_vars, config_vars, auth_vars, web_vars>>

Spec == Init /\ [][Next]_vars

\* a step of the loop of lines 594-634
CrawlStep ==
    /\ \/ CrawlDiscard
       \/ CrawlSkipEpub
       \/ CrawlPdfFetch
       \/ CrawlPdfIgnored
       \/ CrawlFetchFail
       \/ CrawlFetchNonHtml
       \/ CrawlFetchHtmlLeaf
       \/ CrawlFetchHtml
       \/ CrawlLink
       \/ CrawlPageDone
       \/ CrawlReturn
    /\ UNCHANGED <<input_vars, main_vars, config_vars, headers, web_vars>>

\* the loop is sequential code: once called it keeps running until it returns
FairSpec == Spec /\ WF_vars(CrawlStep)

(***************************************************************************)
(* TestConfig, the configuration of the test runner                        *)
(* (src/tests/test_runner_config.py).  max_workers is a sequence: <<>> for *)
(* None, <<n>> for the integer n.                                          *)
(***************************************************************************)
\* lines 57-72: _validate_config, the ValueError it raises or "none"
validate_config(c) ==
    IF c.verbosity \notin 0..3 THEN "ValueError"
    ELSE IF c.output_format \notin {"rich", "plain", "json"} THEN "ValueError"
    ELSE IF c.framework \notin {"unittest", "pytest", "all"} THEN "ValueError"
    ELSE IF c.report_format \notin {"html", "xml", "json"} THEN "ValueError"
    ELSE IF c.parallel_execution /\ c.max_workers # <<>> /\ c.max_workers[1] < 1
    THEN "ValueError"
    ELSE "none"

\* lines 13-55: TestConfig(...) with any keyword arguments; the generated
\* __init__ stores them and calls __post_init__ (line 53), whose exception
\* leaves the call: no object is returned
TestConfigCall ==
    /\ \E c \in [verbosity : {-1, 0, 2, 3, 4},
                 output_format : {"rich", "plain", "json", "invalid"},
                 framework : {"unittest", "pytest", "all", "invalid"},
                 report_format : {"html", "invalid"},
                 parallel_execution : BOOLEAN,
                 max_workers : {<<>>, <<0>>, <<2>>}] :
          /\ config_args' = c
          /\ config_error' = validate_config(c)
          /\ config' = IF validate_config(c) = "none" THEN c ELSE NoConfig
    /\ UNCHANGED <<crawl_vars, input_vars, main_vars, disk_vars, auth_vars, web_vars>>

ConfigNext ==
    TestConfigCall

ConfigSpec == Init /\ [][ConfigNext]_vars

(***************************************************************************)
(* Two requests to the web app at overlapping times.  Flask's app.run      *)
(* (src/web_app.py:141) serves each request in a thread of its own; the    *)
(* threads share the working directory.  The steps of an extraction call   *)
(* that touch its temporary file are the steps of the model.               *)
(***************************************************************************)
\* what a step of request r on the file at path meets: nothing of the other
\* request, or a file that holds the other's download
meets(r, op, path) ==
    IF temp_files[path] \notin {0, r} THEN {[by |-> r, op |-> op]} ELSE {}

\* web_app.py line 72 calls process_input; process_web_pdf (lines 566-570) or
\* process_arxiv_pdf (lines 376-378) names its temporary file and downloads;
\* a failed download leaves through the except clause
WebPost(r) ==
    /\ req_pc[r] = "idle"
    /\ \E path \in {"temp_web.pdf", "temp_arxiv.pdf"}, downloaded \in BOOLEAN :
          /\ temp_pdf_path' = [temp_pdf_path EXCEPT ![r] = path]
          /\ req_pc' = [req_pc EXCEPT ![r] = IF downloaded THEN "write" ELSE "finally"]
    /\ UNCHANGED <<temp_files, req_text, interfered>>

\* lines 574, 379: open(temp_pdf_path, 'wb') and write
WebWrite(r) ==
    /\ req_pc[r] = "write"
    /\ temp_files' = [temp_files EXCEPT ![temp_pdf_path[r]] = r]
    /\ interfered' = interfered \cup meets(r, "write", temp_pdf_path[r])
    /\ req_pc' = [req_pc EXCEPT ![r] = "read"]
    /\ UNCHANGED <<temp_pdf_path, req_text>>

\* lines 576-578, 381-383: open(temp_pdf_path, 'rb') and extract; without the
\* file open raises and the except clause writes an error marker
WebRead(r) ==
    /\ req_pc[r] = "read"
    /\ req_text' = [req_text EXCEPT ![r] = temp_files[temp_pdf_path[r]]]
    /\ interfered' = interfered \cup meets(r, "read", temp_pdf_path[r])
    /\ req_pc' = [req_pc EXCEPT ![r] = "finally"]
    /\ UNCHANGED <<temp_pdf_path, temp_files>>

\* lines 585-586, 395-396: the finally clause removes the file if there is one
WebRemove(r) ==
    /\ req_pc[r] = "finally"
    /\ temp_files' = [temp_files EXCEPT ![temp_pdf_path[r]] = 0]
    /\ interfered' = interfered \cup meets(r, "remove", temp_pdf_path[r])
    /\ req_pc' = [req_pc EXCEPT ![r] = "done"]
    /\ UNCHANGED <<temp_pdf_path, req_text>>

WebNext ==
    \/ \E r \in {1, 2} : WebPost(r)
          /\ UNCHANGED <<crawl_vars, input_vars, main_vars, disk_vars, config_vars, auth_vars>>
    \/ \E r \in {1, 2} : WebWrite(r)
          /\ UNCHANGED <<crawl_vars, input_vars, main_vars, disk_vars, config_vars, auth_vars>>
    \/ \E r \in {1, 2} : WebRead(r)
          /\ UNCHANGED <<crawl_vars, input_vars, main_vars, disk_vars, config_vars, auth_vars>>
    \/ \E r \in {1, 2} : WebRemove(r)
          /\ UNCHANGED <<crawl_vars, input_vars, main_vars, disk_vars, config_vars, auth_vars>>

WebSpec == Init /\ [][WebNext]_vars

(***************************************************************************)
(* Properties of the crawl                                                 *)
(***************************************************************************)
NoDuplicates(s) ==
    Cardinality({s[i] : i \in 1..Len(s)}) = Len(s)

record_urls == [i \in 1..Len(all_text_xml) |-> all_text_xml[i].url]
fetched_urls == [i \in 1..Len(fetched) |-> fetched[i].url]

\* position of u in the order of the visited.add calls, 0 when never added
visit_position(u) ==
    find(visited_adds, u)

\* the host of a URL: its netloc up to the port
host_of(url) ==
    SubSeq(urlparse(url).netloc, 1, find_any(urlparse(url).netloc, {":"}) - 1)

\* number of segments of a path, trailing slashes stripped
segments(path) ==
    count(rstrip(path, "/"), "/")

\* path segments of url beyond the path of base
segment_delta(base, url) ==
    segments(urlparse(url).path) - segments(urlparse(base).path)

\* the two measures, tabulated over the URLs of the universe
HostTable == [u \in Bases \cup Pages |-> host_of(u)]
SegmentDeltaTable == [b \in Bases, u \in Pages |-> segment_delta(b, u)]

host(url) == HostTable[url]
path_segment_delta(url) == SegmentDeltaTable[base_url, url]

EndsInEpub(url) ==
    endswith(url, <<".", "epub">>) \/ endswith(url, <<".", "EPUB">>)

\* C1: each normalized URL is added to the visited set at most once, is fetched
\* at most once (a failed fetch is not retried) and gets at most one page
\* record; the URLs are normalized, they hold no fragment.
C1_NoDuplicateVisits ==
    /\ NoDuplicates(visited_adds)
    /\ NoDuplicates(fetched_urls)
    /\ NoDuplicates(record_urls)
    /\ \A u \in visited : ~contains(u, <<"#">>)
    /\ \A i \in 1..Len(all_text_xml) : ~contains(record_urls[i], <<"#">>)

\* a URL whose fetch failed is dequeued a second time
C1_Witness ==
    /\ Looping
    /\ curr_clean \in visited
    /\ \E i \in 1..Len(fetched) :
          fetched[i].url = curr_clean /\ fetched[i].outcome = "fail"

\* C2: on every link graph of the universe, with cycles and failing fetches, the
\* crawl eventually returns, and it has returned only with an empty frontier and
\* goes on while the frontier holds an entry.
C2_Terminates ==
    /\ (crawl_pc = "loop") ~> (crawl_pc = "returned")
    /\ [](crawl_pc = "returned" => to_visit = <<>> /\ page = NoPage)
    /\ [][crawl_pc' = "returned" => to_visit = <<>>]_vars

\* the crawl returned after a failed fetch and a link back to the base page
C2_Witness ==
    /\ crawl_pc = "returned"
    /\ \E i \in 1..Len(fetched) : fetched[i].outcome = "fail"
    /\ last_link = CleanTable[base_url]
    /\ Len(all_text_xml) >= 2

\* C3: no URL whose host differs from the base URL's host is in the visited set,
\* on the frontier behind a walked anchor, or in a page record; a link just
\* discovered with another host is in none of them.
C3_DomainContainment ==
    /\ \A u \in visited : host(u) = host(base_url)
    /\ \A i \in 1..Len(all_text_xml) : host(record_urls[i]) = host(base_url)
    /\ \A u \in enqueued : host(u) = host(base_url)
    /\ (last_link # NoLink /\ host(last_link) # host(base_url))
          => /\ last_link \notin visited
             /\ last_link \notin Range(record_urls)

\* a link to another host was discovered on a crawl that went on and returned
C3_Witness ==
    /\ crawl_pc = "returned"
    /\ last_link # NoLink
    /\ host(last_link) # host(base_url)
    /\ Len(all_text_xml) >= 2

\* C4: the URL of every page record lies at most max_depth path segments beyond
\* the base URL's path.
C4_DepthContainment ==
    \A i \in 1..Len(all_text_xml) : path_segment_delta(record_urls[i]) <= max_depth

\* a record lies exactly max_depth >= 1 segments beyond the base and a deeper
\* link of the same host was discovered
C4_Witness ==
    /\ max_depth >= 1
    /\ \E i \in 1..Len(all_text_xml) : path_segment_delta(record_urls[i]) = max_depth
    /\ last_link # NoLink
    /\ host(last_link) = host(base_url)
    /\ path_segment_delta(last_link) > max_depth

\* C5: the page records are in dequeue order and their hop depths never decrease
\* along the output.
C5_FifoOrder ==
    /\ \A i, j \in 1..Len(all_text_xml) :
          i < j => /\ all_text_xml[i].depth <= all_text_xml[j].depth
                   /\ visit_position(record_urls[i]) < visit_position(record_urls[j])
    /\ \A i \in 1..Len(all_text_xml) : visit_position(record_urls[i]) > 0

\* records at hop depths 0, 1, 1, 2
C5_Witness ==
    /\ Len(all_text_xml) >= 4
    /\ all_text_xml[1].depth = 0
    /\ all_text_xml[2].depth = 1
    /\ all_text_xml[3].depth = 1
    /\ all_text_xml[4].depth = 2

\* C6: a failed fetch gets a page record holding an error marker, the crawl
\* never raises, the records produced so far are kept by every step, the
\* failing step removes only the failing entry from the frontier, and when the
\* crawl has returned every URL put on the frontier has its page record.
C6_ErrorIsolation ==
    /\ [](crawl_pc # "raised")
    /\ [](\A i \in 1..Len(fetched) :
            fetched[i].outcome = "fail" =>
                \E k \in 1..Len(all_text_xml) :
                    /\ all_text_xml[k].url = fetched[i].url
                    /\ all_text_xml[k].status = "error")
    /\ [](crawl_pc = "returned" => \A u \in enqueued : u \in Range(record_urls))
    /\ [][/\ Len(all_text_xml') >= Len(all_text_xml)
          /\ SubSeq(all_text_xml', 1, Len(all_text_xml)) = all_text_xml
          /\ (Len(fetched') > Len(fetched) /\ fetched'[Len(fetched')].outcome = "fail")
                => to_visit' = Tail(to_visit)]_vars

\* the base page is recorded, the first linked page fails, a later page is
\* recorded after it
C6_Witness ==
    /\ crawl_pc = "returned"
    /\ Len(all_text_xml) >= 3
    /\ all_text_xml[1].status = "ok"
    /\ all_text_xml[2].status = "error"
    /\ all_text_xml[2].depth = 1
    /\ all_text_xml[3].status = "ok"

\* C10: with ignore_epubs set, no URL ending in .epub is put on the frontier by
\* a walked anchor and no page record has a URL ending in .epub.
C10_EpubSkip ==
    ignore_epubs =>
        /\ \A u \in enqueued : ~EndsInEpub(u)
        /\ \A i \in 1..Len(to_visit) : to_visit[i][2] > 0 => ~EndsInEpub(to_visit[i][1])
        /\ \A i \in 1..Len(all_text_xml) : ~EndsInEpub(record_urls[i])

\* with ignore_epubs set, a page linked to an EPUB that is in scope otherwise,
\* and the crawl returned
C10_Witness ==
    /\ ignore_epubs
    /\ crawl_pc = "returned"
    /\ last_link # NoLink
    /\ EndsInEpub(last_link)
    /\ SameDomainTable[base_url, last_link]
    /\ WithinDepthTable[base_url, last_link, max_depth]
    /\ Len(all_text_xml) >= 1

frontier_urls == {to_visit[i][1] : i \in 1..Len(to_visit)}

\* the page records of a URL
records_of(u) == {k \in 1..Len(all_text_xml) : all_text_xml[k].url = u}

\* C11: with include_pdfs false, a link to a .pdf URL of the base's domain and
\* within the depth bound, found on a page whose anchors are walked, is on the
\* frontier or visited; every .pdf URL visited has a page record whose body is
\* only the skipped marker; once the crawl has returned every .pdf URL put on
\* the frontier has that record; and no .pdf URL is ever downloaded.
C11_PdfDisabled ==
    (crawl_pc # "idle" /\ ~include_pdfs) =>
        /\ (/\ last_link # NoLink
            /\ PdfTable[last_link]
            /\ SameDomainTable[base_url, last_link]
            /\ WithinDepthTable[base_url, last_link, max_depth])
              => last_link \in visited \cup frontier_urls
        /\ \A u \in visited : PdfTable[u] =>
              /\ records_of(u) # {}
              /\ \A k \in records_of(u) :
                    /\ all_text_xml[k].status = "skipped_pdf_disabled"
                    /\ all_text_xml[k].body = <<"skipped">>
        /\ crawl_pc = "returned" =>
              \A u \in enqueued : PdfTable[u] => records_of(u) # {}
        /\ \A i \in 1..Len(fetched) : ~PdfTable[fetched[i].url]

\* with include_pdfs false, a page linked to a PDF, and the crawl returned with
\* the PDF's skipped record after the page's
C11_Witness ==
    /\ ~include_pdfs
    /\ crawl_pc = "returned"
    /\ \E u \in enqueued : PdfTable[u] /\ records_of(u) # {}
    /\ Len(all_text_xml) >= 2
    /\ all_text_xml[1].status = "ok"

\* C12: normalizing twice gives what normalizing once gives, for every URL the
\* crawl takes off its frontier (the base URL as it was passed, and the links
\* as lines 624-627 left them).
C12_IdempotentNormalization ==
    Looping => clean_url_of(curr_clean) = curr_clean

\* C13: the keys of processed_content, which line 634 returns as
\* processed_urls, are the URLs of the page records, in the same order and
\* without duplicates; each of them was visited, is of the base's domain and
\* within the depth bound, and is no EPUB when EPUBs are ignored.
C13_ProcessedUrls ==
    /\ processed_content = record_urls
    /\ NoDuplicates(processed_content)
    /\ \A i \in 1..Len(processed_content) :
          /\ processed_content[i] \in visited
          /\ SameDomainTable[base_url, processed_content[i]]
          /\ WithinDepthTable[base_url, processed_content[i], max_depth]
          /\ ~(ignore_epubs /\ EpubTable[processed_content[i]])

\* the crawl returned three URLs, one of a failed fetch, after it met a link
\* out of scope
C13_Witness ==
    /\ crawl_pc = "returned"
    /\ Len(processed_content) = 3
    /\ \E i \in 1..Len(fetched) : fetched[i].outcome = "fail"
    /\ last_link # NoLink
    /\ ~SameDomainTable[base_url, last_link]

\* C17: the same-domain decision taken for a link agrees with the equality of
\* its host and the base URL's host, whatever the scheme and the port.
C17_SameDomainByHost ==
    last_link # NoLink =>
        (SameDomainTable[base_url, last_link] <=> host(last_link) = host(base_url))

\* C18: the frontier never holds two entries with the same normalized URL,
\* whatever their depths.
C18_FrontierUnique ==
    \A i, j \in 1..Len(to_visit) :
        i # j => CleanTable[to_visit[i][1]] # CleanTable[to_visit[j][1]]

\* C23: every frontier entry and every page record has a hop depth from 0 to
\* max_depth; anchors are walked, and so the frontier grows, only for a page
\* that was fetched as HTML and whose depth is below max_depth; with max_depth
\* 0 nothing is enqueued and the only page record there can be is the one of
\* the base URL.
C23_HopDepthBound ==
    /\ [](\A i \in 1..Len(to_visit) : to_visit[i][2] \in 0..max_depth)
    /\ [](\A k \in 1..Len(all_text_xml) : all_text_xml[k].depth \in 0..max_depth)
    /\ [](page # NoPage =>
            /\ page.depth < max_depth
            /\ [url |-> page.url, outcome |-> "html"] \in Range(fetched))
    /\ [][(crawl_pc = "loop" /\ Range(to_visit') \ Range(to_visit) # {})
            => page # NoPage /\ page' = page]_vars
    /\ [](max_depth = 0 =>
            /\ enqueued = {}
            /\ Len(all_text_xml) <= 1
            /\ \A k \in 1..Len(all_text_xml) : all_text_xml[k].url = CleanTable[base_url])

\* process_input was given a PDF URL: the crawl ran with max_depth 0, fetched
\* the PDF, enqueued nothing and returned the one page record
C23_Witness ==
    /\ input_pc = "done"
    /\ handler = "crawl_and_extract_text"
    /\ max_depth = 0
    /\ Len(fetched) = 1
    /\ enqueued = {}
    /\ Len(all_text_xml) = 1
    /\ all_text_xml[1].depth = 0

PathTable == [u \in Bases \cup Pages |-> rstrip(urlparse(u).path, "/")]

\* what C27 says of is_within_depth: under a root base a URL of k >= 1
\* segments is within depth iff k + 1 <= max_depth, under a base with the
\* path p a URL that extends p by k segments iff k <= max_depth
ClaimedWithinDepth(base, url, max_d) ==
    IF PathTable[base] = <<>>
    THEN PathTable[url] = <<>> \/ count(PathTable[url], "/") + 1 <= max_d
    ELSE count(PathTable[url], "/") - count(PathTable[base], "/") <= max_d

\* C27 as stated: the depth decision for a link whose path extends the base
\* path is the one ClaimedWithinDepth gives, and a crawl of a root base with
\* max_depth 1 enqueues no link and records no page but the base page.
C27_RootBaseDepthOne ==
    /\ (last_link # NoLink /\ startswith(PathTable[last_link], PathTable[base_url]))
          => (WithinDepthTable[base_url, last_link, max_depth]
                <=> ClaimedWithinDepth(base_url, last_link, max_depth))
    /\ (crawl_pc # "idle" /\ PathTable[base_url] = <<>> /\ max_depth = 1) =>
          /\ enqueued = {}
          /\ Len(all_text_xml) <= 1

\* C27 amended: the depth decision is the one ClaimedWithinDepth gives, and a
\* crawl of a root base with max_depth 1 enqueues and records only URLs whose
\* path is empty or "/": the base page, and the root of the host under its
\* other spelling when a page links to it.
C27_RootBaseDepthOneAmended ==
    /\ (last_link # NoLink /\ startswith(PathTable[last_link], PathTable[base_url]))
          => (WithinDepthTable[base_url, last_link, max_depth]
                <=> ClaimedWithinDepth(base_url, last_link, max_depth))
    /\ (crawl_pc # "idle" /\ PathTable[base_url] = <<>> /\ max_depth = 1) =>
          /\ \A u \in enqueued : PathTable[u] = <<>>
          /\ \A k \in 1..Len(all_text_xml) : PathTable[all_text_xml[k].url] = <<>>

\* the crawl of http://h with max_depth 1 met links to /d/a and to /, and
\* returned with the records of http://h and of http://h/
C27_Witness ==
    /\ crawl_pc = "returned"
    /\ PathTable[base_url] = <<>>
    /\ max_depth = 1
    /\ anchors >= 2
    /\ last_link # NoLink
    /\ PathTable[last_link] # <<>>
    /\ Len(all_text_xml) = 2
    /\ all_text_xml[2].url # all_text_xml[1].url

\* C28: the path of every Page Record's URL, and of every enqueued URL, has
\* the path of the base URL as a string prefix (trailing slashes stripped on
\* both sides), whatever max_depth is: a link of the same host whose path
\* does not start with the base path is neither enqueued nor processed.
C28_RecordsUnderBasePath ==
    crawl_pc # "idle" =>
        /\ \A k \in 1..Len(all_text_xml) :
              startswith(PathTable[all_text_xml[k].url], PathTable[base_url])
        /\ \A u \in enqueued : startswith(PathTable[u], PathTable[base_url])

\* the crawl of http://h/d with the largest max_depth met a link to the
\* page /a of the same host and returned with the record of the base alone
C28_Witness ==
    /\ crawl_pc = "returned"
    /\ max_depth = MaxDepthArg
    /\ last_link # NoLink
    /\ is_same_domain(base_url, last_link)
    /\ ~startswith(PathTable[last_link], PathTable[base_url])
    /\ enqueued = {}
    /\ Len(all_text_xml) = 1
    /\ all_text_xml[1].url = base_url

RECURSIVE Chained(_)
Chained(ls) ==
    IF ls = <<>> THEN <<>> ELSE Head(ls) \o Chained(Tail(ls))

\* what C30 says resolve_single_input_source returns
ClaimedResolution(source_string, af) ==
    IF af.is_file /\ \A i \in 1..Len(source_string) :
                        source_string[i] \notin {".", "/", ":", "\\"}
    THEN af.targets
    ELSE <<source_string>>

\* the same, for an alias file that is there and can be read
ClaimedResolutionOfReadable(source_string, af) ==
    IF af.is_file /\ af.found /\ \A i \in 1..Len(source_string) :
                                     source_string[i] \notin {".", "/", ":", "\\"}
    THEN af.targets
    ELSE <<source_string>>

has_marker(pieces) == \E i \in 1..Len(pieces) : pieces[i] \in {"e", "error"}
has_text(pieces) == \E i \in 1..Len(pieces) : pieces[i] = "text"

\* C14: a string that holds an "<error>" or "<e>" marker of a collaborator is
\* put raw into the page element of the crawl and into the block of the arXiv,
\* DOI and local-PDF handlers: it is not entity-escaped.
C14_MarkersRaw ==
    /\ \A k \in 1..Len(all_text_xml) :
          has_marker(all_text_xml[k].body) => ~all_text_xml[k].escaped
    /\ has_marker(content_to_insert.pieces) => ~content_to_insert.escaped

\* C15: a string that holds extracted text, of an HTML page or of a PDF page,
\* is entity-escaped when it is put into a page element or a block.
C15_TextEscapedOnce ==
    /\ \A k \in 1..Len(all_text_xml) :
          has_text(all_text_xml[k].body) => all_text_xml[k].escaped
    /\ has_text(content_to_insert.pieces) => content_to_insert.escaped

C19_PartialExtractionSucceeds ==
    /\ \A i \in 1..Len(doi_tried) :
          doi_tried[i].answer = "pdf" => doi_tried[i].extracted # <<>>
    /\ \A i \in 1..(Len(doi_tried) - 1) : ~has_text(doi_tried[i].extracted)

PathArgs == {<<"n", ".", "txt">>, <<"zzz">>}

\* C8: when main has run on a list of path inputs, it ended without an
\* exception and its outputs hold one block per input, in the order given.
C8_BatchResilience ==
    (/\ main_pc \in {"returned", "raised"}
     /\ argv # <<>>
     /\ \A i \in 1..Len(argv) : argv[i] \in PathArgs
     /\ ~alias_file.found)
        => /\ main_error = "none"
           /\ Len(outputs) = Len(argv)
           /\ \A i \in 1..Len(argv) : outputs[i].ref = argv[i]

\* extensions C9 counts as text or code
TextExtensions == {"txt"}

\* the handlers C9 names for a string and a file system, rule by rule
ClaimedHandlers(s, fs) ==
    IF contains(s, Str_github_com)
    THEN IF contains(s, <<"/", "pull", "/">>) THEN {"process_github_pull_request"}
         ELSE IF contains(s, <<"/", "issues", "/">>) THEN {"process_github_issue"}
         ELSE {"process_github_repo"}
    ELSE IF startswith(s, <<"http", ":">>) \/ startswith(s, <<"https", ":">>)
    THEN IF contains(s, Str_youtube_com) \/ contains(s, <<"youtu", ".", "be">>)
         THEN {"fetch_youtube_transcript"}
         ELSE IF contains(s, Str_arxiv_abs) THEN {"process_arxiv_pdf"}
         ELSE IF endswith(lower(s), <<".", "pdf">>) THEN {"crawl_and_extract_text"}
         ELSE IF endswith(s, <<".", "xls">>) \/ endswith(s, <<".", "xls", "x">>)
         THEN {"excel_to_markdown_from_url"}
         ELSE IF s[Len(s)] \in TextExtensions /\ s[Len(s) - 1] = "."
         THEN {"_download_and_read_file"}
         ELSE {"crawl_and_extract_text"}
    ELSE IF (startswith(s, <<"10", ".">>) /\ contains(s, <<"/">>)) \/ isdigit(s)
    THEN {"process_doi_or_pmid"}
    ELSE IF fs = "dir" THEN {"process_local_folder"}
    ELSE IF fs = "file"
    THEN {"_process_pdf_content_from_path", "excel_to_markdown", "safe_file_read"}
    ELSE {"none"}

\* C9: for every well-formed input, dispatch_processing calls the handler of
\* the first rule that matches, in the order github, http/https (YouTube,
\* arXiv, .pdf, .xls/.xlsx, text or code extension, general crawl), DOI or
\* PMID, directory, file, error.
C9_DispatchOrder ==
    (input_pc = "done" /\ ~urlparse_raises(input_path))
        => handler \in ClaimedHandlers(input_path, fs_kind)

\* the handler C20 names for a local file, by its extension
ClaimedFileHandler(s) ==
    IF endswith(lower(s), <<".", "ipynb">>) THEN "process_ipynb_file"
    ELSE IF endswith(lower(s), <<".", "pdf">>) THEN "_process_pdf_content_from_path"
    ELSE IF endswith(lower(s), <<".", "xls">>) \/ endswith(lower(s), <<".", "xls", "x">>)
    THEN "excel_to_markdown"
    ELSE "safe_file_read"

\* C20: when dispatch_processing took the branch of an existing local file,
\* the handler it called is the one of the file's extension.
C20_LocalFileBranches ==
    (/\ input_pc = "done"
     /\ fs_kind = "file"
     /\ dispatch_raised = "none"
     /\ handler \in {"process_ipynb_file", "_process_pdf_content_from_path",
                     "excel_to_markdown", "safe_file_read"})
        => handler = ClaimedFileHandler(input_path)

\* an http or https URL that none of the rules before the general crawl names
GeneralWebUrl(s) ==
    /\ ~urlparse_raises(s)
    /\ startswith(s, <<"http", ":">>) \/ startswith(s, <<"https", ":">>)
    /\ ~contains(s, Str_github_com)
    /\ ~contains(s, Str_youtube_com) /\ ~contains(s, <<"youtu", ".", "be">>)
    /\ ~contains(s, Str_arxiv_abs)
    /\ ~endswith(lower(s), <<".", "pdf">>)
    /\ ~endswith(lower(s), <<".", "xls">>) /\ ~endswith(lower(s), <<".", "xls", "x">>)
    /\ ~(s[Len(s)] \in TextExtensions /\ s[Len(s) - 1] = ".")

\* C21: when process_input has returned for an http or https URL that is not
\* a GitHub, YouTube or arXiv URL and ends in none of .pdf, .xls, .xlsx or a
\* text or code extension, crawl_and_extract_text was called with that URL and
\* the max_depth, include_pdfs and ignore_epubs of the configuration (1, True,
\* True), and the block returned is the web_crawl block, not an error block.
C21_GeneralCrawl ==
    (input_pc = "done" /\ GeneralWebUrl(input_path))
        => /\ handler = "crawl_and_extract_text"
           /\ crawl_args = <<input_path, 1, TRUE, TRUE>>
           /\ Len(result) = 1
           /\ result[1].type = "web_crawl"

(***************************************************************************)
(* Properties of the requests                                              *)
(***************************************************************************)
\* C25: no step changes the authentication header bag; the only callers whose
\* requests carry its Authorization header are the GitHub handlers and the
\* downloads of a file URL and of a spreadsheet URL; the page fetches and PDF
\* downloads of a crawl and the arXiv, YouTube and DOI handlers send none.
C25_AuthHeadersScoped ==
    /\ [][headers' = headers]_vars
    /\ [](with_auth \subseteq {"process_github_pull_request", "process_github_issue",
                               "process_github_repo", "excel_to_markdown_from_url",
                               "_download_and_read_file"})
    /\ [](handler \in {"crawl_and_extract_text", "process_arxiv_pdf",
                       "fetch_youtube_transcript", "process_doi_or_pmid"}
            => with_auth = {})
    /\ [](input_pc = "idle" /\ fetched # <<>> => with_auth = {})

\* with the bag holding a token, a crawl fetched an HTML page and downloaded a
\* PDF linked from it, and returned: no request carried the token
C25_Witness ==
    /\ "Authorization" \in headers
    /\ crawl_pc = "returned"
    /\ \E i \in 1..Len(fetched) : fetched[i].outcome = "html"
    /\ \E i \in 1..Len(fetched) : fetched[i].outcome = "pdf"
    /\ with_auth = {}

(***************************************************************************)
(* Properties of TestConfig                                                *)
(***************************************************************************)
\* C22: a call TestConfig(...) with verbosity -1, with framework "invalid" or
\* with output_format "invalid" raises nothing and returns an object that
\* holds the values as given.
C22_ConstructionDoesNotValidate ==
    (\/ config_args.verbosity = -1
     \/ config_args.framework = "invalid"
     \/ config_args.output_format = "invalid")
        => /\ config_error = "none"
           /\ config = config_args

(***************************************************************************)
(* Properties of concurrent requests                                       *)
(***************************************************************************)
\* C26: with two requests processed at overlapping times, no extraction call
\* reads, overwrites or removes a temporary file that holds the other
\* request's download, and the text of a request's block was extracted from
\* its own download.
C26_TempFilesPrivate ==
    /\ interfered = {}
    /\ \A r \in {1, 2} : req_text[r] \in {0, r}

====
